---- MODULE Spec2Model ----
(***************************************************************************)
(* Role / access model of the chat client: the document store (users,      *)
(* userProjects, qrInvitations, groups, projects, messages), the          *)
(* SuperAdmin approval screen, the two project user-management screens,    *)
(* project creation and the chat room's posting check.                     *)
(*                                                                         *)
(* Every `await` on the store is one atomic step of a handler; two admin   *)
(* sessions run their handlers interleaved.  A store call may fail, which  *)
(* takes the handler to its catch block.                                   *)
(***************************************************************************)
EXTENDS Integers, Sequences, FiniteSets, TLC

Null == "null"

\* ---- bounds --------------------------------------------------------------
MaxMemberships == 3     \* userProjects documents ever created
MaxOps == 3             \* handlers started over a run of the approval screens
MaxMemberOps == 2       \* handlers started over a run with project management
MaxFailures == 1        \* store calls that fail over a run
MaxMessages == 2        \* documents of the messages collection
MaxClock == 3           \* minutes the device clock advances over a run
MaxLoginClock == 6      \* minutes the clock advances over a run of logins
MaxAttempts == 3        \* loginWithPhoneOTP / logout calls started over a run
MaxRandom == 40         \* values of the random source sampled at each end of [0, 1)

\* ---- identities ----------------------------------------------------------
Candidates == {"u1", "u2"}            \* ordinary users
Users == Candidates \cup {"sa"}       \* "sa" is the SuperAdmin
Projects == {"p1", "p2"}
Qrs == {"q1", "q2"}
Groups == {"general_p1", "general_p2", "team_p1"}
Sessions == {"s1", "s2"}

VARIABLES
  users,            \* collection users: id -> document
  userProjects,     \* collection userProjects: sequence of documents, id = index
  qrInvitations,    \* collection qrInvitations: id -> document
  groups,           \* collection groups: the General channel of each project
  projects,         \* collection projects: id -> document
  authCredentials,  \* users holding an authentication credential
  pendingUsers,     \* PendingApprovalsScreen state, per session
  projectUsers,     \* management screen list, per session
  project,          \* management screen route parameter, per session
  pc,               \* position of the session's running handler
  op,               \* locals of the running handler
  result,           \* what the last finished handler of the session reported
  opsStarted,
  opBudget,         \* how many handlers a run may start
  failures,
  messages,         \* collection messages
  currentUser,      \* AuthProvider state: the signed-in user
  userData,         \* AuthProvider state: the user document read at sign-in
  authUserProjects, \* AuthProvider state userProjects: getUserProjects at sign-in
  screen,           \* which chat room component is mounted
  group,            \* ChatRoomScreen prop: the open group
  newMessage,       \* ChatRoomScreen state
  showAttachmentMenu,
  replyingTo,
  alert,            \* the last Alert of the chat room
  lookup,           \* the last call of an access-resolver function and its answer
  otp,              \* the last call of verifyOTP and its result
  now,              \* the device clock (new Date()), in minutes
  userLogin,        \* collection users, the login fields: currentOTP, otpExpiresAt, isBlocked
  attempt,          \* per device: the running loginWithPhoneOTP / logout call
  logins,           \* per user: loginWithPhoneOTP calls that returned successfully
  authSession,      \* auth().currentUser of the device
  loginConfirmation, \* UnifiedAuthScreen state: the phone-auth confirmation
  generated         \* the last result of generateOTP / getOTPExpiration

vars == <<users, userProjects, qrInvitations, groups, projects, authCredentials,
          pendingUsers, projectUsers, project, pc, op, result, opsStarted, opBudget,
          failures, messages, currentUser, userData, authUserProjects, screen,
          group, newMessage, showAttachmentMenu, replyingTo, alert,
          lookup, otp, now, userLogin, attempt, logins, authSession,
          loginConfirmation, generated>>

\* the state of the signed-in device and the messages collection
chat == <<messages, currentUser, userData, authUserProjects, screen, group,
          newMessage, showAttachmentMenu, replyingTo, alert>>

\* the state of the administrators' screens
admin == <<pendingUsers, projectUsers, project, pc, op, result, opsStarted,
           opBudget, failures>>

store == <<users, userProjects, qrInvitations, groups, projects, authCredentials>>

\* the calls of the helper functions (roleHelper, otpGenerator) and the clock
calls == <<lookup, otp, now, userLogin, attempt, logins, authSession,
          loginConfirmation, generated>>

\* ---- helpers -------------------------------------------------------------
RECURSIVE SeqToSet(_)
SeqToSet(s) == IF s = <<>> THEN {} ELSE {Head(s)} \cup SeqToSet(Tail(s))

\* (qrData.pendingSignups || []).filter(signup => signup.userId !== user.id)
RemoveSignup(list, u) == SelectSeq(list, LAMBDA x : x # u)

\* variant: the flag computed with >= instead of >
IsPendingOf_AlwaysTrue(list) == Len(list) >= 0

\* isPending: updatedPendingSignups.length > 0
IsPendingOf(list) == Len(list) > 0

\* the document written by approveUser / rejectUser to the invitation
UpdatedInvitation(doc, snap, u) ==
  [doc EXCEPT !.pendingSignups = RemoveSignup(snap, u),
              !.isPending = IsPendingOf(RemoveSignup(snap, u))]

\* documents of userProjects for a (userId, projectId) pair
MembershipIds(up, u, p) ==
  {i \in 1..Len(up) : up[i].exists /\ up[i].userId = u /\ up[i].projectId = p}

ActiveMembershipIds(up, u, p) ==
  {i \in MembershipIds(up, u, p) : up[i].isActive}

NewMembership(u, p, r) ==
  [userId |-> u, projectId |-> p, role |-> r, isActive |-> TRUE, exists |-> TRUE]

\* loadPendingUsers: invitations with isPending == true, their signups whose
\* user document exists
PendingList(qr, us) ==
  {[id |-> u, qrId |-> q, projectId |-> qr[q].projectId] :
     <<q, u>> \in {<<q2, u2>> \in Qrs \X Users :
                     /\ qr[q2].isPending
                     /\ u2 \in SeqToSet(qr[q2].pendingSignups)
                     /\ us[u2].exists}}

IdleOp == [kind |-> "none", user |-> Null, qrId |-> Null, projectId |-> Null,
           snap |-> <<>>, added |-> 0, userMissing |-> FALSE,
           selected |-> <<>>, idx |-> 1, channel |-> Null, members |-> {},
           docId |-> 0, role |-> Null, todo |-> {}, addedUsers |-> {}]

NoResult == [kind |-> "none", user |-> Null, qrId |-> Null, projectId |-> Null,
             outcome |-> "none", added |-> 0, userMissing |-> FALSE]

ResultOf(o, outcome) ==
  [kind |-> o.kind, user |-> o.user, qrId |-> o.qrId, projectId |-> o.projectId,
   outcome |-> outcome, added |-> o.added, userMissing |-> o.userMissing]

\* userData before sign-in (null)
NoUserData == [exists |-> FALSE, globalRole |-> "undefined", role |-> "undefined"]

\* no helper function has been called yet
NoLookup == [fn |-> "none", userId |-> Null, projectId |-> Null, data |-> NoUserData,
             failed |-> FALSE, answer |-> "none", list |-> <<>>, raised |-> FALSE]

NoOtp == [called |-> FALSE, enteredOTP |-> "undefined", storedOTP |-> "undefined",
          expiresAt |-> [type |-> "undefined"], at |-> 0,
          valid |-> FALSE, message |-> "none"]

Devices == {"d1", "d2"}     \* d1 carries the AuthProvider state of the model

\* the login fields of a user document without a stored code
NoCode == [currentOTP |-> "null", otpExpiresAt |-> [type |-> "null"],
           isBlocked |-> FALSE]

IdleAttempt == [kind |-> "none", pc |-> "idle", user |-> Null, otp |-> "undefined",
                snap |-> NoCode, found |-> FALSE, at |-> 0, outcome |-> "none",
                n |-> 0]

NothingGenerated == [fn |-> "none", code |-> <<>>, value |-> 0, at |-> 0,
                     expiration |-> [type |-> "undefined"]]

InitCalls ==
  /\ lookup = NoLookup /\ otp = NoOtp /\ now = 0
  /\ userLogin = [u \in Users |-> NoCode]
  /\ attempt = [d \in Devices |-> IdleAttempt]
  /\ logins = [u \in Users |-> 0]
  /\ authSession = Null
  /\ loginConfirmation = Null
  /\ generated = NothingGenerated

\* ---- initial state -------------------------------------------------------
\* Signup itself runs server side; the store starts with each ordinary user
\* either waiting in one invitation or already approved.
InitInvitation(q, waiting) ==
  LET list == IF waiting["u1"] = q
                THEN (IF waiting["u2"] = q THEN <<"u1", "u2">> ELSE <<"u1">>)
                ELSE (IF waiting["u2"] = q THEN <<"u2">> ELSE <<>>)
  IN [projectId |-> IF q = "q1" THEN "p1" ELSE Null,
      pendingSignups |-> list,
      isPending |-> Len(list) > 0,
      exists |-> TRUE]

InitStore(waiting, budget, members) ==
    /\ users = [u \in Users |->
                  [exists |-> TRUE,
                   isApproved |-> IF u \in Candidates THEN waiting[u] = Null ELSE TRUE,
                   isActive |-> TRUE,
                   globalRole |-> IF u = "sa" THEN "superadmin" ELSE "none",
                   role |-> "employee"]]
    /\ userProjects = IF "u2" \in members
                        THEN <<NewMembership("u2", "p1", "user")>> ELSE <<>>
    /\ qrInvitations = [q \in Qrs |-> InitInvitation(q, waiting)]
    /\ groups = [g \in Groups |->
                   [exists |-> g = "general_p1",
                    projectId |-> IF g = "general_p2" THEN "p2" ELSE "p1",
                    isChannel |-> g # "team_p1",
                    isGeneralChannel |-> g # "team_p1",
                    members |-> IF g = "general_p1" THEN members ELSE {}]]
    /\ projects = [p \in Projects |-> [exists |-> p = "p1", isActive |-> TRUE]]
    /\ authCredentials = Users
    /\ pendingUsers = [s \in Sessions |-> {}]
    /\ projectUsers = [s \in Sessions |-> {}]
    /\ project = [s \in Sessions |-> Null]
    /\ pc = [s \in Sessions |-> "idle"]
    /\ op = [s \in Sessions |-> IdleOp]
    /\ result = [s \in Sessions |-> NoResult]
    /\ opsStarted = 0
    /\ opBudget = budget
    /\ failures = 0
    /\ messages = <<>>
    /\ currentUser = Null
    /\ userData = NoUserData
    /\ authUserProjects = <<>>
    /\ screen = "none"
    /\ group = Null
    /\ newMessage = ""
    /\ showAttachmentMenu = FALSE
    /\ replyingTo = 0
    /\ alert = "none"
    /\ InitCalls

Init == \E waiting \in [Candidates -> Qrs \cup {Null}] : InitStore(waiting, MaxOps, {})

\* ---- PendingApprovalsScreen ----------------------------------------------
loadPendingUsers(s) ==
  /\ pc[s] = "idle"
  /\ pendingUsers' = [pendingUsers EXCEPT ![s] = PendingList(qrInvitations, users)]
  /\ pendingUsers'[s] # pendingUsers[s]
  /\ UNCHANGED <<store, projectUsers, project, pc, op, result, opsStarted, opBudget, failures>>
  /\ UNCHANGED <<chat, calls>>

\* the handler ends: Alert, and on success the list is loaded again
Finish(s, outcome) ==
  /\ pc' = [pc EXCEPT ![s] = "idle"]
  /\ result' = [result EXCEPT ![s] = ResultOf(op[s], outcome)]
  /\ op' = [op EXCEPT ![s] = IdleOp]

\* approveUser(user) is started from a row of the list
approveUser_start(s) ==
  /\ pc[s] = "idle"
  /\ opsStarted < opBudget
  /\ \E e \in pendingUsers[s] :
       op' = [op EXCEPT ![s] = [IdleOp EXCEPT !.kind = "approve", !.user = e.id,
                                  !.qrId = e.qrId, !.projectId = e.projectId,
                                  !.userMissing = ~users[e.id].exists]]
  /\ pc' = [pc EXCEPT ![s] = "approve_update"]
  /\ opsStarted' = opsStarted + 1
  /\ UNCHANGED <<store, pendingUsers, projectUsers, project, result, opBudget, failures>>
  /\ UNCHANGED <<chat, calls>>

\* variant: the user document written with set-and-merge, which creates a
\* missing document instead of failing
approveUser_update_Upsert(s) ==
  /\ pc[s] = "approve_update"
  /\ users' = [users EXCEPT ![op[s].user].isApproved = TRUE,
                            ![op[s].user].exists = TRUE]
  /\ pc' = [pc EXCEPT ![s] = IF op[s].projectId # Null
                               THEN "approve_add" ELSE "approve_get"]
  /\ UNCHANGED <<op, result>>
  /\ UNCHANGED <<userProjects, qrInvitations, groups, projects, authCredentials,
                 pendingUsers, projectUsers, project, opsStarted, opBudget, failures>>
  /\ UNCHANGED <<chat, calls>>

\* users.doc(user.id).update({isApproved: true, ...}); update of a missing
\* document is rejected with not-found
approveUser_update(s) ==
  /\ pc[s] = "approve_update"
  /\ IF users[op[s].user].exists
       THEN /\ users' = [users EXCEPT ![op[s].user].isApproved = TRUE]
            /\ pc' = [pc EXCEPT ![s] = IF op[s].projectId # Null
                                         THEN "approve_add" ELSE "approve_get"]
            /\ UNCHANGED <<op, result>>
       ELSE /\ Finish(s, "error")
            /\ UNCHANGED users
  /\ UNCHANGED <<userProjects, qrInvitations, groups, projects, authCredentials,
                 pendingUsers, projectUsers, project, opsStarted, opBudget, failures>>
  /\ UNCHANGED <<chat, calls>>

\* if (user.projectId) userProjects.add({..., role: 'user', isActive: true})
approveUser_add(s) ==
  /\ pc[s] = "approve_add"
  /\ Len(userProjects) < MaxMemberships
  /\ userProjects' = Append(userProjects,
                            NewMembership(op[s].user, op[s].projectId, "user"))
  /\ op' = [op EXCEPT ![s].added = @ + 1]
  /\ pc' = [pc EXCEPT ![s] = "approve_get"]
  /\ UNCHANGED <<users, qrInvitations, groups, projects, authCredentials,
                 pendingUsers, projectUsers, project, result, opsStarted, opBudget, failures>>
  /\ UNCHANGED <<chat, calls>>

\* qrInvitations.doc(user.qrId).get()
approveUser_get(s) ==
  /\ pc[s] = "approve_get"
  /\ op' = [op EXCEPT ![s].snap = qrInvitations[op[s].qrId].pendingSignups]
  /\ pc' = [pc EXCEPT ![s] = "approve_write"]
  /\ UNCHANGED <<store, pendingUsers, projectUsers, project, result, opsStarted, opBudget, failures>>
  /\ UNCHANGED <<chat, calls>>

\* qrInvitations.doc(user.qrId).update({pendingSignups, isPending}); Alert;
\* loadPendingUsers()
approveUser_write(s) ==
  /\ pc[s] = "approve_write"
  /\ qrInvitations' = [qrInvitations EXCEPT ![op[s].qrId] =
                         UpdatedInvitation(@, op[s].snap, op[s].user)]
  /\ Finish(s, "success")
  /\ pendingUsers' = [pendingUsers EXCEPT ![s] = PendingList(qrInvitations', users)]
  /\ UNCHANGED <<users, userProjects, groups, projects, authCredentials,
                 projectUsers, project, opsStarted, opBudget, failures>>
  /\ UNCHANGED <<chat, calls>>

\* rejectUser(user) is started from a row of the list
rejectUser_start(s) ==
  /\ pc[s] = "idle"
  /\ opsStarted < opBudget
  /\ \E e \in pendingUsers[s] :
       op' = [op EXCEPT ![s] = [IdleOp EXCEPT !.kind = "reject", !.user = e.id,
                                  !.qrId = e.qrId, !.projectId = e.projectId,
                                  !.userMissing = ~users[e.id].exists]]
  /\ pc' = [pc EXCEPT ![s] = "reject_delete"]
  /\ opsStarted' = opsStarted + 1
  /\ UNCHANGED <<store, pendingUsers, projectUsers, project, result, opBudget, failures>>
  /\ UNCHANGED <<chat, calls>>

\* variant: a soft delete, the document is kept and marked inactive
rejectUser_delete_Soft(s) ==
  /\ pc[s] = "reject_delete"
  /\ users' = [users EXCEPT ![op[s].user].isActive = FALSE]
  /\ pc' = [pc EXCEPT ![s] = "reject_get"]
  /\ UNCHANGED <<userProjects, qrInvitations, groups, projects, authCredentials,
                 pendingUsers, projectUsers, project, op, result, opsStarted,
                 opBudget, failures>>
  /\ UNCHANGED <<chat, calls>>

\* users.doc(user.id).delete(); the credential is left alone
rejectUser_delete(s) ==
  /\ pc[s] = "reject_delete"
  /\ users' = [users EXCEPT ![op[s].user].exists = FALSE]
  /\ pc' = [pc EXCEPT ![s] = "reject_get"]
  /\ UNCHANGED <<userProjects, qrInvitations, groups, projects, authCredentials,
                 pendingUsers, projectUsers, project, op, result, opsStarted, opBudget, failures>>
  /\ UNCHANGED <<chat, calls>>

rejectUser_get(s) ==
  /\ pc[s] = "reject_get"
  /\ op' = [op EXCEPT ![s].snap = qrInvitations[op[s].qrId].pendingSignups]
  /\ pc' = [pc EXCEPT ![s] = "reject_write"]
  /\ UNCHANGED <<store, pendingUsers, projectUsers, project, result, opsStarted, opBudget, failures>>
  /\ UNCHANGED <<chat, calls>>

rejectUser_write(s) ==
  /\ pc[s] = "reject_write"
  /\ qrInvitations' = [qrInvitations EXCEPT ![op[s].qrId] =
                         UpdatedInvitation(@, op[s].snap, op[s].user)]
  /\ Finish(s, "success")
  /\ pendingUsers' = [pendingUsers EXCEPT ![s] = PendingList(qrInvitations', users)]
  /\ UNCHANGED <<users, userProjects, groups, projects, authCredentials,
                 projectUsers, project, opsStarted, opBudget, failures>>
  /\ UNCHANGED <<chat, calls>>

\* ---- project user management (UserManagementScreen, ProjectManagementScreen)
\* active userProjects of the project joined with the existing user documents
ProjectUserList(up, us, p) ==
  {[id |-> up[i].userId, userProjectId |-> i, role |-> up[i].role] :
     i \in {j \in 1..Len(up) : /\ up[j].exists /\ up[j].projectId = p
                               /\ up[j].isActive /\ us[up[j].userId].exists}}

\* fetchAllUsers: active users not listed in the project, SuperAdmins excluded
AvailableUsers(us, listed) ==
  {u \in Users : /\ us[u].exists /\ us[u].isActive
                 /\ u \notin {e.id : e \in listed}
                 /\ us[u].globalRole # "superadmin"}

\* the selections an administrator can tick, in ticking order
Selections(avail) ==
  {<<u>> : u \in avail} \cup
  {<<u, v>> : <<u, v>> \in {<<a, b>> \in avail \X avail : a # b}}

\* groups where projectId == p and isGeneralChannel == true, docs[0] or null
GeneralChannelOf(gs, p) ==
  IF \E g \in Groups : gs[g].exists /\ gs[g].projectId = p /\ gs[g].isGeneralChannel
    THEN CHOOSE g \in Groups :
           gs[g].exists /\ gs[g].projectId = p /\ gs[g].isGeneralChannel
    ELSE Null

\* the management screen of a project is opened: fetchProjectUsers / loadProjectData
loadProjectData(s) ==
  /\ pc[s] = "idle"
  /\ \E p \in Projects :
       /\ projects[p].exists
       /\ project' = [project EXCEPT ![s] = p]
       /\ projectUsers' = [projectUsers EXCEPT ![s] =
                             ProjectUserList(userProjects, users, p)]
  /\ <<project'[s], projectUsers'[s]>> # <<project[s], projectUsers[s]>>
  /\ UNCHANGED <<store, pendingUsers, pc, op, result, opsStarted, opBudget, failures>>
  /\ UNCHANGED <<chat, calls>>

\* handleAddUsers (UserManagementScreen) and handleAddUsersToProject
\* (ProjectManagementScreen) issue the same store calls; they differ in what
\* follows the Alert (goBack / loadProjectData)
AddUsersStart(s, kind) ==
  /\ pc[s] = "idle"
  /\ opsStarted < opBudget
  /\ project[s] # Null
  /\ \E sel \in Selections(AvailableUsers(users, projectUsers[s])) :
       op' = [op EXCEPT ![s] = [IdleOp EXCEPT !.kind = kind, !.projectId = project[s],
                                  !.selected = sel]]
  /\ pc' = [pc EXCEPT ![s] = "add_general"]
  /\ opsStarted' = opsStarted + 1
  /\ UNCHANGED <<store, pendingUsers, projectUsers, project, result, opBudget, failures>>
  /\ UNCHANGED <<chat, calls>>

handleAddUsers_start(s) == AddUsersStart(s, "addUsers")

handleAddUsersToProject_start(s) == AddUsersStart(s, "addUsersToProject")

\* the General channel is read once, before the loop
AddUsers_general(s) ==
  /\ pc[s] = "add_general"
  /\ LET g == GeneralChannelOf(groups, op[s].projectId) IN
       op' = [op EXCEPT ![s].channel = g,
                        ![s].members = IF g = Null THEN {} ELSE groups[g].members]
  /\ pc' = [pc EXCEPT ![s] = "add_check"]
  /\ UNCHANGED <<store, pendingUsers, projectUsers, project, result, opsStarted, opBudget, failures>>
  /\ UNCHANGED <<chat, calls>>

\* existingCheck: userProjects where userId and projectId match (any isActive)
AddUsers_check(s) ==
  /\ pc[s] = "add_check"
  /\ op[s].idx <= Len(op[s].selected)
  /\ IF MembershipIds(userProjects, op[s].selected[op[s].idx], op[s].projectId) # {}
       THEN /\ op' = [op EXCEPT ![s].idx = @ + 1]
            /\ UNCHANGED pc
       ELSE /\ pc' = [pc EXCEPT ![s] = "add_insert"]
            /\ UNCHANGED op
  /\ UNCHANGED <<store, pendingUsers, projectUsers, project, result, opsStarted, opBudget, failures>>
  /\ UNCHANGED <<chat, calls>>

\* userProjects.add({userId, projectId, role: 'user', isActive: true})
AddUsers_insert(s) ==
  /\ pc[s] = "add_insert"
  /\ Len(userProjects) < MaxMemberships
  /\ LET u == op[s].selected[op[s].idx] IN
       /\ userProjects' = Append(userProjects, NewMembership(u, op[s].projectId, "user"))
       /\ IF op[s].channel # Null /\ u \notin op[s].members
            THEN /\ pc' = [pc EXCEPT ![s] = "add_channel"]
                 /\ UNCHANGED op
            ELSE /\ pc' = [pc EXCEPT ![s] = "add_check"]
                 /\ op' = [op EXCEPT ![s].idx = @ + 1, ![s].added = @ + 1,
                                     ![s].addedUsers = @ \cup {u}]
  /\ UNCHANGED <<users, qrInvitations, groups, projects, authCredentials,
                 pendingUsers, projectUsers, project, result, opsStarted, opBudget, failures>>
  /\ UNCHANGED <<chat, calls>>

\* groups.doc(generalChannel.id).update({members: [...currentMembers, userId]})
\* with currentMembers taken from the snapshot read before the loop
AddUsers_channel(s) ==
  /\ pc[s] = "add_channel"
  /\ groups' = [groups EXCEPT ![op[s].channel].members =
                  op[s].members \cup {op[s].selected[op[s].idx]}]
  /\ op' = [op EXCEPT ![s].idx = @ + 1, ![s].added = @ + 1,
                      ![s].addedUsers = @ \cup {op[s].selected[op[s].idx]}]
  /\ pc' = [pc EXCEPT ![s] = "add_check"]
  /\ UNCHANGED <<users, userProjects, qrInvitations, projects, authCredentials,
                 pendingUsers, projectUsers, project, result, opsStarted, opBudget, failures>>
  /\ UNCHANGED <<chat, calls>>

\* what the management screen shows after a handler: UserManagementScreen
\* goes back (the screen is left), ProjectManagementScreen loads again
AfterManagement(s, kind, up, us) ==
  IF kind \in {"addUsers", "removeUserUM", "toggleRole"}
    THEN /\ projectUsers' = [projectUsers EXCEPT ![s] = {}]
         /\ project' = [project EXCEPT ![s] = Null]
    ELSE /\ projectUsers' = [projectUsers EXCEPT ![s] =
                               ProjectUserList(up, us, project[s])]
         /\ UNCHANGED project

\* the loop is over: Alert 'Added n user(s)'
AddUsers_done(s) ==
  /\ pc[s] = "add_check"
  /\ op[s].idx > Len(op[s].selected)
  /\ Finish(s, "success")
  /\ AfterManagement(s, op[s].kind, userProjects, users)
  /\ UNCHANGED <<store, pendingUsers, opsStarted, opBudget, failures>>
  /\ UNCHANGED <<chat, calls>>

\* ProjectManagementScreen: handlePromoteUser / handleDemoteUser /
\* handleRemoveUser first look the userProjects document up by
\* (userId, projectId), with no isActive filter, and take docs[0]
ManageStart(s, kind) ==
  /\ pc[s] = "idle"
  /\ opsStarted < opBudget
  /\ project[s] # Null
  /\ \E e \in projectUsers[s] :
       op' = [op EXCEPT ![s] = [IdleOp EXCEPT !.kind = kind, !.user = e.id,
                                  !.projectId = project[s],
                                  !.docId = e.userProjectId, !.role = e.role]]
  /\ pc' = [pc EXCEPT ![s] = kind]
  /\ opsStarted' = opsStarted + 1
  /\ UNCHANGED <<store, pendingUsers, projectUsers, project, result, opBudget, failures>>
  /\ UNCHANGED <<chat, calls>>

\* the query; an empty snapshot ends the handler without any Alert
ManageQuery(s, kind) ==
  /\ pc[s] = kind
  /\ LET found == MembershipIds(userProjects, op[s].user, op[s].projectId) IN
       IF found = {}
         THEN /\ Finish(s, "nothing")
              /\ UNCHANGED <<projectUsers, project>>
         ELSE /\ \E d \in found : op' = [op EXCEPT ![s].docId = d]
              /\ pc' = [pc EXCEPT ![s] = "manage_update"]
              /\ UNCHANGED <<result, projectUsers, project>>
  /\ UNCHANGED <<store, pendingUsers, opsStarted, opBudget, failures>>
  /\ UNCHANGED <<chat, calls>>

\* snapshot.docs[0].ref.update(...); update of a deleted document is rejected
ManagedDoc(doc, kind) ==
  CASE kind = "promote" -> [doc EXCEPT !.role = "project_admin"]
    [] kind = "demote" -> [doc EXCEPT !.role = "user"]
    [] kind = "removeUserPM" -> [doc EXCEPT !.isActive = FALSE]

ManageUpdate(s) ==
  /\ pc[s] = "manage_update"
  /\ IF userProjects[op[s].docId].exists
       THEN /\ userProjects' = [userProjects EXCEPT ![op[s].docId] =
                                  ManagedDoc(@, op[s].kind)]
            /\ Finish(s, "success")
            /\ AfterManagement(s, op[s].kind, userProjects', users)
       ELSE /\ Finish(s, "error")
            /\ UNCHANGED <<userProjects, projectUsers, project>>
  /\ UNCHANGED <<users, qrInvitations, groups, projects, authCredentials,
                 pendingUsers, opsStarted, opBudget, failures>>
  /\ UNCHANGED <<chat, calls>>

handlePromoteUser_start(s) == ManageStart(s, "promote")

handlePromoteUser_query(s) == ManageQuery(s, "promote")

handleDemoteUser_start(s) == ManageStart(s, "demote")

handleDemoteUser_query(s) == ManageQuery(s, "demote")

handleRemoveUserPM_start(s) == ManageStart(s, "removeUserPM")

handleRemoveUserPM_query(s) == ManageQuery(s, "removeUserPM")

\* UserManagementScreen.handleRemoveUser: the listed userProjects document is
\* deleted, then the user is taken out of the project's groups
handleRemoveUser_start(s) == ManageStart(s, "removeUserUM")

handleRemoveUser_delete(s) ==
  /\ pc[s] = "removeUserUM"
  /\ userProjects' = [userProjects EXCEPT ![op[s].docId].exists = FALSE]
  /\ pc' = [pc EXCEPT ![s] = "remove_groups"]
  /\ UNCHANGED <<users, qrInvitations, groups, projects, authCredentials,
                 pendingUsers, projectUsers, project, op, result, opsStarted, opBudget, failures>>
  /\ UNCHANGED <<chat, calls>>

\* groups where projectId == project.id; the loop then visits the groups of
\* the snapshot that list the user
handleRemoveUser_groups(s) ==
  /\ pc[s] = "remove_groups"
  /\ LET listing == {g \in Groups : /\ groups[g].exists
                                    /\ groups[g].projectId = op[s].projectId
                                    /\ op[s].user \in groups[g].members} IN
       IF listing # {}
         THEN /\ op' = [op EXCEPT ![s].todo = listing,
                                  ![s].snap = [g \in Groups |-> groups[g].members]]
              /\ pc' = [pc EXCEPT ![s] = "remove_member"]
              /\ UNCHANGED <<result, projectUsers, project>>
         ELSE /\ Finish(s, "success")
              /\ AfterManagement(s, op[s].kind, userProjects, users)
  /\ UNCHANGED <<store, pendingUsers, opsStarted, opBudget, failures>>
  /\ UNCHANGED <<chat, calls>>

\* groups.doc(groupDoc.id).update({members: members.filter(id => id !== user.id)})
handleRemoveUser_member(s) ==
  /\ pc[s] = "remove_member"
  /\ LET g == CHOOSE x \in op[s].todo : TRUE IN
       /\ groups' = [groups EXCEPT ![g].members = op[s].snap[g] \ {op[s].user}]
       /\ IF op[s].todo = {g}
            THEN /\ Finish(s, "success")
                 /\ AfterManagement(s, op[s].kind, userProjects, users)
            ELSE /\ op' = [op EXCEPT ![s].todo = @ \ {g}]
                 /\ UNCHANGED <<pc, result, projectUsers, project>>
  /\ UNCHANGED <<users, userProjects, qrInvitations, projects, authCredentials,
                 pendingUsers, opsStarted, opBudget, failures>>
  /\ UNCHANGED <<chat, calls>>

\* UserManagementScreen.handleToggleRole: newRole from the listed role
handleToggleRole_start(s) == ManageStart(s, "toggleRole")

handleToggleRole_update(s) ==
  /\ pc[s] = "toggleRole"
  /\ IF userProjects[op[s].docId].exists
       THEN /\ userProjects' = [userProjects EXCEPT ![op[s].docId].role =
                                  IF op[s].role = "user" THEN "project_admin" ELSE "user"]
            /\ Finish(s, "success")
            /\ AfterManagement(s, op[s].kind, userProjects', users)
       ELSE /\ Finish(s, "error")
            /\ UNCHANGED <<userProjects, projectUsers, project>>
  /\ UNCHANGED <<users, qrInvitations, groups, projects, authCredentials,
                 pendingUsers, opsStarted, opBudget, failures>>
  /\ UNCHANGED <<chat, calls>>

\* ---- CreateProjectModal ----------------------------------------------------
\* fetchAllUsers of the modal: active users, SuperAdmins excluded
AdminChoices(us) ==
  {u \in Users : us[u].exists /\ us[u].isActive /\ us[u].globalRole # "superadmin"}

\* projects.add({name, isActive: true})
handleCreate_project(s) ==
  /\ pc[s] = "idle"
  /\ opsStarted < opBudget
  /\ \E p \in Projects, admins \in SUBSET AdminChoices(users) :
       /\ ~projects[p].exists
       /\ projects' = [projects EXCEPT ![p].exists = TRUE]
       /\ op' = [op EXCEPT ![s] = [IdleOp EXCEPT !.kind = "create", !.projectId = p,
                                     !.members = admins]]
  /\ pc' = [pc EXCEPT ![s] = "create_channel"]
  /\ opsStarted' = opsStarted + 1
  /\ UNCHANGED <<users, userProjects, qrInvitations, groups, authCredentials,
                 pendingUsers, projectUsers, project, result, opBudget, failures>>
  /\ UNCHANGED <<chat, calls>>

\* groups.add({name: 'General', isChannel: true, isGeneralChannel: true,
\*             members: selectedAdmins})
handleCreate_channel(s) ==
  /\ pc[s] = "create_channel"
  /\ \E g \in Groups :
       /\ ~groups[g].exists
       /\ groups[g].projectId = op[s].projectId
       /\ groups' = [groups EXCEPT ![g].exists = TRUE, ![g].isChannel = TRUE,
                                   ![g].isGeneralChannel = TRUE,
                                   ![g].members = op[s].members]
  /\ pc' = [pc EXCEPT ![s] = "create_admins"]
  /\ UNCHANGED <<users, userProjects, qrInvitations, projects, authCredentials,
                 pendingUsers, projectUsers, project, op, result, opsStarted, opBudget, failures>>
  /\ UNCHANGED <<chat, calls>>

RECURSIVE AdminMemberships(_, _)
AdminMemberships(admins, p) ==
  IF admins = {} THEN <<>>
  ELSE LET u == CHOOSE x \in admins : TRUE
       IN <<NewMembership(u, p, "project_admin")>> \o AdminMemberships(admins \ {u}, p)

\* Promise.all(selectedAdmins.map(userId => userProjects.add({role: 'project_admin'})))
handleCreate_admins(s) ==
  /\ pc[s] = "create_admins"
  /\ Len(userProjects) + Cardinality(op[s].members) <= MaxMemberships
  /\ userProjects' = userProjects \o AdminMemberships(op[s].members, op[s].projectId)
  /\ Finish(s, "success")
  /\ UNCHANGED <<users, qrInvitations, groups, projects, authCredentials,
                 pendingUsers, projectUsers, project, opsStarted, opBudget, failures>>
  /\ UNCHANGED <<chat, calls>>

\* a store call of the running handler rejects: catch block, Alert 'Failed'
StoreFailure(s) ==
  /\ pc[s] # "idle"
  /\ failures < MaxFailures
  /\ failures' = failures + 1
  /\ Finish(s, "error")
  /\ UNCHANGED <<store, pendingUsers, projectUsers, project, opsStarted, opBudget>>
  /\ UNCHANGED <<chat, calls>>

\* ---- AuthProvider and ChatRoomScreen ---------------------------------------
\* reading a property an object does not have yields undefined
Field(rec, name) == IF name \in DOMAIN rec THEN rec[name] ELSE "undefined"

\* variant: any globalRole that is set counts
isSuperAdmin_AnyRole(data) ==
  IF ~data.exists THEN FALSE ELSE Field(data, "globalRole") \notin {"undefined", "null"}

\* roleHelper.isSuperAdmin
isSuperAdmin(data) ==
  IF ~data.exists THEN FALSE ELSE Field(data, "globalRole") = "superadmin"

\* roleHelper.getUserProjects: the active userProjects of the user, each with
\* its project document when that exists and is active; an entry is
\* {id, ...projectDoc.data(), userRole}
RECURSIVE ProjectEntries(_, _, _, _)
ProjectEntries(up, pr, u, i) ==
  IF i > Len(up) THEN <<>>
  ELSE IF /\ up[i].exists /\ up[i].userId = u /\ up[i].isActive
          /\ pr[up[i].projectId].exists /\ pr[up[i].projectId].isActive
         THEN <<[id |-> up[i].projectId, isActive |-> TRUE, userRole |-> up[i].role]>>
              \o ProjectEntries(up, pr, u, i + 1)
         ELSE ProjectEntries(up, pr, u, i + 1)

getUserProjects(up, pr, u) == IF u = Null THEN <<>> ELSE ProjectEntries(up, pr, u, 1)

\* auth().onAuthStateChanged(user): the user document is read, then the
\* project list unless the user is SuperAdmin
onAuthStateChanged(u) ==
  /\ currentUser = Null
  /\ users[u].exists
  /\ currentUser' = u
  /\ userData' = [exists |-> TRUE, globalRole |-> users[u].globalRole,
                  role |-> users[u].role]
  /\ authUserProjects' = IF isSuperAdmin(userData')
                           THEN <<>>
                           ELSE getUserProjects(userProjects, projects, u)
  /\ UNCHANGED <<messages, screen, group, newMessage, showAttachmentMenu,
                 replyingTo, alert>>
  /\ UNCHANGED <<store, admin, calls>>

\* ChatRoomScreen: userProjects?.some(up => up.projectId === group?.projectId
\*                                        && up.role === 'project_admin')
ChatRoom_isProjectAdmin(ups, g) ==
  \E i \in 1..Len(ups) : /\ Field(ups[i], "projectId") = groups[g].projectId
                         /\ Field(ups[i], "role") = "project_admin"

\* ChatRoomScreen: userData?.globalRole === 'superadmin'
ChatRoom_isSuperAdmin(data) == data.exists /\ Field(data, "globalRole") = "superadmin"

\* variant: the admin check applied to every group, channel or not
canSendMessages_AdminsEverywhere(g) ==
  ChatRoom_isProjectAdmin(authUserProjects, g) \/ ChatRoom_isSuperAdmin(userData)

\* group?.isChannel ? (isProjectAdmin || isSuperAdmin) : true
canSendMessages(g) ==
  IF groups[g].isChannel
    THEN ChatRoom_isProjectAdmin(authUserProjects, g) \/ ChatRoom_isSuperAdmin(userData)
    ELSE TRUE

\* the earlier ChatRoomScreen: !group.isChannel || userData?.role === 'admin'
canSendEarlier(g) ==
  ~groups[g].isChannel \/ (userData.exists /\ Field(userData, "role") = "admin")

\* the input area (text input, send and attachment buttons) is rendered
InputShown ==
  /\ group # Null
  /\ \/ screen = "ChatRoomScreen" /\ canSendMessages(group)
     \/ screen = "ChatRoomScreenEarlier" /\ canSendEarlier(group)

\* newMessage.trim()
Trim(t) == IF t = " " THEN "" ELSE t

Texts == {"", " ", "hi"}

\* a chat is opened from the list: DashboardScreen lists the groups whose
\* members contain the user, SuperAdminChatScreen the groups of the project
openChat(g, which) ==
  /\ currentUser # Null /\ screen = "none"
  /\ groups[g].exists
  /\ isSuperAdmin(userData) \/ currentUser \in groups[g].members
  /\ screen' = which
  /\ group' = g
  /\ UNCHANGED <<messages, currentUser, userData, authUserProjects, newMessage,
                 showAttachmentMenu, replyingTo, alert>>
  /\ UNCHANGED <<store, admin, calls>>

\* onBack: the chat room is unmounted
onBack ==
  /\ screen # "none"
  /\ screen' = "none" /\ group' = Null /\ newMessage' = ""
  /\ showAttachmentMenu' = FALSE /\ replyingTo' = 0 /\ alert' = "none"
  /\ UNCHANGED <<messages, currentUser, userData, authUserProjects>>
  /\ UNCHANGED <<store, admin, calls>>

\* handleInputChange / setNewMessage: typing into the rendered input
handleInputChange(t) ==
  /\ InputShown
  /\ newMessage' = t /\ newMessage' # newMessage
  /\ UNCHANGED <<messages, currentUser, userData, authUserProjects, screen, group,
                 showAttachmentMenu, replyingTo, alert>>
  /\ UNCHANGED <<store, admin, calls>>

NewMessage(type, isReply) ==
  [groupId |-> group, senderId |-> currentUser, type |-> type, isReply |-> isReply,
   via |-> screen]

\* ChatRoomScreen.sendMessage
sendMessage ==
  /\ screen = "ChatRoomScreen"
  /\ ~(Trim(newMessage) = "" \/ group = Null)
  /\ IF ~canSendMessages(group)
       THEN /\ alert' = "Only admins can post in channels"
            /\ UNCHANGED <<messages, newMessage, replyingTo>>
       ELSE \/ /\ Len(messages) < MaxMessages
               /\ messages' = Append(messages, NewMessage("text", replyingTo # 0))
               /\ newMessage' = "" /\ replyingTo' = 0
               /\ UNCHANGED alert
            \/ /\ alert' = "Failed to send message"
               /\ replyingTo' = 0
               /\ UNCHANGED <<messages, newMessage>>
  /\ UNCHANGED <<currentUser, userData, authUserProjects, screen, group,
                 showAttachmentMenu>>
  /\ UNCHANGED <<store, admin, calls>>

\* the attachment button of the input area
toggleAttachmentMenu ==
  /\ screen = "ChatRoomScreen" /\ InputShown
  /\ showAttachmentMenu' = ~showAttachmentMenu
  /\ UNCHANGED <<messages, currentUser, userData, authUserProjects, screen, group,
                 newMessage, replyingTo, alert>>
  /\ UNCHANGED <<store, admin, calls>>

\* handleImagePicker / handleVideoPicker, then handleMediaResponse: upload and
\* messages.add with the reply data
handleMediaResponse ==
  /\ screen = "ChatRoomScreen" /\ showAttachmentMenu
  /\ showAttachmentMenu' = FALSE
  /\ \/ /\ Len(messages) < MaxMessages
        /\ messages' = Append(messages, NewMessage("media", replyingTo # 0))
        /\ replyingTo' = 0
        /\ UNCHANGED alert
     \/ /\ alert' = "Failed to upload media"
        /\ UNCHANGED <<messages, replyingTo>>
  /\ UNCHANGED <<currentUser, userData, authUserProjects, screen, group, newMessage>>
  /\ UNCHANGED <<store, admin, calls>>

\* handleDocumentPicker, then handleDocumentUpload
handleDocumentUpload ==
  /\ screen = "ChatRoomScreen" /\ showAttachmentMenu
  /\ showAttachmentMenu' = FALSE
  /\ \/ /\ Len(messages) < MaxMessages
        /\ messages' = Append(messages, NewMessage("document", FALSE))
        /\ UNCHANGED alert
     \/ /\ alert' = "Failed to upload document"
        /\ UNCHANGED messages
  /\ UNCHANGED <<currentUser, userData, authUserProjects, screen, group, newMessage,
                 replyingTo>>
  /\ UNCHANGED <<store, admin, calls>>

\* the Reply entry of the message actions, shown to every reader
setReplyingTo(m) ==
  /\ screen = "ChatRoomScreen" /\ group # Null
  /\ m \in 1..Len(messages) /\ messages[m].groupId = group
  /\ replyingTo' = m /\ replyingTo' # replyingTo
  /\ UNCHANGED <<messages, currentUser, userData, authUserProjects, screen, group,
                 newMessage, showAttachmentMenu, alert>>
  /\ UNCHANGED <<store, admin, calls>>

\* the earlier ChatRoomScreen.sendMessage
sendMessageEarlier ==
  /\ screen = "ChatRoomScreenEarlier"
  /\ ~(Trim(newMessage) = "" \/ group = Null)
  /\ IF groups[group].isChannel /\ ~(userData.exists /\ Field(userData, "role") = "admin")
       THEN /\ alert' = "Only admins can post in channels"
            /\ UNCHANGED <<messages, newMessage>>
       ELSE \/ /\ Len(messages) < MaxMessages
               /\ messages' = Append(messages, NewMessage("text", FALSE))
               /\ newMessage' = ""
               /\ UNCHANGED alert
            \/ /\ alert' = "Failed to send message"
               /\ UNCHANGED <<messages, newMessage>>
  /\ UNCHANGED <<currentUser, userData, authUserProjects, screen, group,
                 showAttachmentMenu, replyingTo>>
  /\ UNCHANGED <<store, admin, calls>>

\* the earlier handleImagePicker / handleImageResponse, from the input area
handleImageResponseEarlier ==
  /\ screen = "ChatRoomScreenEarlier" /\ InputShown
  /\ \/ /\ Len(messages) < MaxMessages
        /\ messages' = Append(messages, NewMessage("media", FALSE))
        /\ UNCHANGED alert
     \/ /\ alert' = "Failed to upload image"
        /\ UNCHANGED messages
  /\ UNCHANGED <<currentUser, userData, authUserProjects, screen, group, newMessage,
                 showAttachmentMenu, replyingTo>>
  /\ UNCHANGED <<store, admin, calls>>

Approvals(s) ==
  \/ loadPendingUsers(s)
  \/ approveUser_start(s)
  \/ approveUser_update(s)
  \/ approveUser_add(s)
  \/ approveUser_get(s)
  \/ approveUser_write(s)

Rejections(s) ==
  \/ rejectUser_start(s)
  \/ rejectUser_delete(s)
  \/ rejectUser_get(s)
  \/ rejectUser_write(s)

Management(s) ==
  \/ loadProjectData(s)
  \/ handleAddUsers_start(s)
  \/ handleAddUsersToProject_start(s)
  \/ AddUsers_general(s)
  \/ AddUsers_check(s)
  \/ AddUsers_insert(s)
  \/ AddUsers_channel(s)
  \/ AddUsers_done(s)
  \/ handlePromoteUser_start(s)
  \/ handlePromoteUser_query(s)
  \/ handleDemoteUser_start(s)
  \/ handleDemoteUser_query(s)
  \/ handleRemoveUserPM_start(s)
  \/ handleRemoveUserPM_query(s)
  \/ ManageUpdate(s)
  \/ handleRemoveUser_start(s)
  \/ handleRemoveUser_delete(s)
  \/ handleRemoveUser_groups(s)
  \/ handleRemoveUser_member(s)
  \/ handleToggleRole_start(s)
  \/ handleToggleRole_update(s)
  \/ handleCreate_project(s)
  \/ handleCreate_channel(s)
  \/ handleCreate_admins(s)

\* the approval screen on two administrators' devices
Next == \E s \in Sessions : Approvals(s) \/ Rejections(s) \/ StoreFailure(s)

Spec == Init /\ [][Next]_vars

\* approvals together with project and membership management
\* u1 waits in the invitation of p1; u2 is approved and may already be a member
InitMembers ==
  \E members \in {{}, {"u2"}} :
    InitStore([u \in Candidates |-> IF u = "u1" THEN "q1" ELSE Null],
              MaxMemberOps, members)

NextMembers == \E s \in Sessions : Approvals(s) \/ Management(s)

SpecMembers == InitMembers /\ [][NextMembers]_vars

\* the chat rooms of one signed-in device; the store holds the legacy role
\* field of the user documents, any membership of u1 in p1 (u2 is a project
\* admin of p1), and the General channel and a group of p1 with both as members
MembershipChoices == {"none", "user", "project_admin"}

InitChat ==
  \E legacy \in [Candidates -> {"admin", "employee"}],
     member \in [Candidates -> MembershipChoices] :
    /\ legacy["u2"] = "employee" /\ member["u2"] = "project_admin"
    /\ users = [u \in Users |->
                  [exists |-> TRUE, isApproved |-> TRUE, isActive |-> TRUE,
                   globalRole |-> IF u = "sa" THEN "superadmin" ELSE "none",
                   role |-> IF u \in Candidates THEN legacy[u] ELSE "employee"]]
    /\ userProjects =
         (IF member["u1"] = "none" THEN <<>>
            ELSE <<NewMembership("u1", "p1", member["u1"])>>)
         \o (IF member["u2"] = "none" THEN <<>>
               ELSE <<NewMembership("u2", "p1", member["u2"])>>)
    /\ qrInvitations = [q \in Qrs |-> InitInvitation(q, [u \in Candidates |-> Null])]
    /\ groups = [g \in Groups |->
                   [exists |-> g # "general_p2",
                    projectId |-> IF g = "general_p2" THEN "p2" ELSE "p1",
                    isChannel |-> g # "team_p1",
                    isGeneralChannel |-> g # "team_p1",
                    members |-> IF g = "general_p2" THEN {} ELSE Candidates]]
    /\ projects = [p \in Projects |-> [exists |-> p = "p1", isActive |-> TRUE]]
    /\ authCredentials = Users
    /\ pendingUsers = [s \in Sessions |-> {}]
    /\ projectUsers = [s \in Sessions |-> {}]
    /\ project = [s \in Sessions |-> Null]
    /\ pc = [s \in Sessions |-> "idle"]
    /\ op = [s \in Sessions |-> IdleOp]
    /\ result = [s \in Sessions |-> NoResult]
    /\ opsStarted = 0
    /\ opBudget = 0
    /\ failures = 0
    /\ messages = <<>>
    /\ currentUser = Null
    /\ userData = NoUserData
    /\ authUserProjects = <<>>
    /\ screen = "none"
    /\ group = Null
    /\ newMessage = ""
    /\ showAttachmentMenu = FALSE
    /\ replyingTo = 0
    /\ alert = "none"
    /\ InitCalls

NextChat ==
  \/ \E u \in Users : onAuthStateChanged(u)
  \/ \E g \in Groups, which \in {"ChatRoomScreen", "ChatRoomScreenEarlier"} :
       openChat(g, which)
  \/ onBack
  \/ \E t \in Texts : handleInputChange(t)
  \/ sendMessage
  \/ toggleAttachmentMenu
  \/ handleMediaResponse
  \/ handleDocumentUpload
  \/ \E m \in 1..MaxMessages : setReplyingTo(m)
  \/ sendMessageEarlier
  \/ handleImageResponseEarlier

SpecChat == InitChat /\ [][NextChat]_vars

\* ---- roleHelper: the access resolver -----------------------------------------
\* a JavaScript boolean as the answer of a call
Bool(b) == IF b THEN "true" ELSE "false"

\* the user document as AuthProvider / a caller hands it to roleHelper: the
\* stored fields, null when the document does not exist
StoredRecord(u) ==
  IF u # Null /\ users[u].exists
    THEN [exists |-> TRUE, globalRole |-> users[u].globalRole, role |-> users[u].role]
    ELSE NoUserData

\* userData.userProjects || []
EmbeddedProjects(data) ==
  IF Field(data, "userProjects") = "undefined" THEN <<>> ELSE data.userProjects

\* roleHelper.isProjectAdmin(userData, projectId):
\*   userProjects.find(p => p.projectId === projectId), then
\*   project && project.role === 'project_admin'
isProjectAdmin(data, p) ==
  IF ~data.exists \/ p = Null THEN "false"
  ELSE IF isSuperAdmin(data) THEN "true"
  ELSE LET ups == EmbeddedProjects(data)
           found == {i \in 1..Len(ups) : Field(ups[i], "projectId") = p}
       IN IF found = {} THEN "undefined"
          ELSE LET first == CHOOSE i \in found : \A j \in found : i <= j
               IN Bool(Field(ups[first], "role") = "project_admin")

\* the isProjectAdmin of the auth context value:
\*   userProjects.find(p => p.id === projectId), then
\*   project && project.userRole === 'project_admin'
Context_isProjectAdmin(p) ==
  IF ~userData.exists \/ p = Null THEN "false"
  ELSE IF isSuperAdmin(userData) THEN "true"
  ELSE LET found == {i \in 1..Len(authUserProjects) :
                       Field(authUserProjects[i], "id") = p}
       IN IF found = {} THEN "undefined"
          ELSE LET first == CHOOSE i \in found : \A j \in found : i <= j
               IN Bool(Field(authUserProjects[first], "userRole") = "project_admin")

\* roleHelper.getUserRoleInProject(userId, projectId); failed: the query rejects
getUserRoleInProject(up, u, p, failed) ==
  IF u = Null \/ p = Null THEN "null"
  ELSE IF failed THEN "null"
  ELSE LET found == ActiveMembershipIds(up, u, p)
       IN IF found = {} THEN "null"
          ELSE up[CHOOSE i \in found : \A j \in found : i <= j].role

\* roleHelper.hasAccessToProject(userId, projectId, userData = null)
hasAccessToProject(up, u, p, data, failed) ==
  IF u = Null \/ p = Null THEN "false"
  ELSE IF data.exists /\ isSuperAdmin(data) THEN "true"
  ELSE IF failed THEN "false"
  ELSE Bool(ActiveMembershipIds(up, u, p) # {})

\* the values a caller may hand to isSuperAdmin: no record, a record without
\* globalRole, and records with globalRole null or some string
GlobalRoles == {"superadmin", "SuperAdmin", "admin", "none", "null"}

UserDataValues ==
  {NoUserData, [exists |-> TRUE, role |-> "employee"]}
  \cup {[exists |-> TRUE, globalRole |-> g, role |-> "employee"] : g \in GlobalRoles}

Answered(fn, u, p, data, failed, answer, list) ==
  /\ lookup' = [fn |-> fn, userId |-> u, projectId |-> p, data |-> data,
                failed |-> failed, answer |-> answer, list |-> list, raised |-> FALSE]
  /\ lookup' # lookup
  /\ UNCHANGED <<otp, now, userLogin, attempt, logins, authSession,
                 loginConfirmation, generated>>
  /\ UNCHANGED <<store, admin, chat>>

isSuperAdmin_call(data) ==
  Answered("isSuperAdmin", Null, Null, data, FALSE, Bool(isSuperAdmin(data)), <<>>)

\* a screen asks roleHelper.isProjectAdmin about the signed-in user's record
isProjectAdmin_call(p) ==
  Answered("isProjectAdmin", currentUser, p, userData, FALSE,
           isProjectAdmin(userData, p), <<>>)

\* a screen asks the auth context's isProjectAdmin
Context_isProjectAdmin_call(p) ==
  Answered("context.isProjectAdmin", currentUser, p, userData, FALSE,
           Context_isProjectAdmin(p), <<>>)

getUserRoleInProject_call(u, p, failed) ==
  Answered("getUserRoleInProject", u, p, NoUserData, failed,
           getUserRoleInProject(userProjects, u, p, failed), <<>>)

hasAccessToProject_call(u, p, data, failed) ==
  Answered("hasAccessToProject", u, p, data, failed,
           hasAccessToProject(userProjects, u, p, data, failed), <<>>)

\* getUserProjects(userId); a rejected query is caught and answered with []
getUserProjects_call(u, failed) ==
  Answered("getUserProjects", u, Null, NoUserData, failed, "list",
           IF failed THEN <<>> ELSE getUserProjects(userProjects, projects, u))

\* the store the resolver reads: u1 holds in p1 no record, a user or
\* project_admin record, a deactivated record, or an active record whose role
\* field is missing; u2 is a user of p1; the SuperAdmin holds no record; p2
\* has no membership records at all
MembershipKinds == {"none", "user", "project_admin", "inactive", "malformed"}

MembershipOfKind(u, p, kind) ==
  IF kind = "none" THEN <<>>
  ELSE IF kind = "inactive"
    THEN <<[NewMembership(u, p, "project_admin") EXCEPT !.isActive = FALSE]>>
  ELSE IF kind = "malformed" THEN <<NewMembership(u, p, "undefined")>>
  ELSE <<NewMembership(u, p, kind)>>

InitRoles ==
  \E kind \in MembershipKinds :
    /\ users = [u \in Users |->
                  [exists |-> TRUE, isApproved |-> TRUE, isActive |-> TRUE,
                   globalRole |-> IF u = "sa" THEN "superadmin" ELSE "none",
                   role |-> "employee"]]
    /\ userProjects = MembershipOfKind("u1", "p1", kind)
                      \o <<NewMembership("u2", "p1", "user")>>
    /\ qrInvitations = [q \in Qrs |-> InitInvitation(q, [u \in Candidates |-> Null])]
    /\ groups = [g \in Groups |->
                   [exists |-> g # "team_p1",
                    projectId |-> IF g = "general_p2" THEN "p2" ELSE "p1",
                    isChannel |-> TRUE, isGeneralChannel |-> TRUE,
                    members |-> IF g = "general_p1" THEN Candidates ELSE {}]]
    /\ projects = [p \in Projects |-> [exists |-> TRUE, isActive |-> TRUE]]
    /\ authCredentials = Users
    /\ pendingUsers = [s \in Sessions |-> {}]
    /\ projectUsers = [s \in Sessions |-> {}]
    /\ project = [s \in Sessions |-> Null]
    /\ pc = [s \in Sessions |-> "idle"]
    /\ op = [s \in Sessions |-> IdleOp]
    /\ result = [s \in Sessions |-> NoResult]
    /\ opsStarted = 0
    /\ opBudget = 0
    /\ failures = 0
    /\ messages = <<>>
    /\ currentUser = Null
    /\ userData = NoUserData
    /\ authUserProjects = <<>>
    /\ screen = "none"
    /\ group = Null
    /\ newMessage = ""
    /\ showAttachmentMenu = FALSE
    /\ replyingTo = 0
    /\ alert = "none"
    /\ InitCalls

NextRoles ==
  \/ \E u \in Users : onAuthStateChanged(u)
  \/ \E data \in UserDataValues : isSuperAdmin_call(data)
  \/ \E p \in Projects \cup {Null} : isProjectAdmin_call(p)
  \/ \E p \in Projects \cup {Null} : Context_isProjectAdmin_call(p)
  \/ \E u \in Users \cup {Null}, p \in Projects \cup {Null}, failed \in BOOLEAN :
       getUserRoleInProject_call(u, p, failed)
  \/ \E u \in Users \cup {Null}, p \in Projects \cup {Null}, failed \in BOOLEAN :
       \E data \in {NoUserData, StoredRecord(u)} :
         hasAccessToProject_call(u, p, data, failed)
  \/ \E u \in Users \cup {Null}, failed \in BOOLEAN : getUserProjects_call(u, failed)

SpecRoles == InitRoles /\ [][NextRoles]_vars

\* ---- otpGenerator: verifyOTP ------------------------------------------------
\* instants are minutes since the epoch; an Invalid Date has the time value NaN
NaN == -1

Instants == 0..MaxClock

\* Date.prototype.toISOString of the instants
Iso == <<"1970-01-01T00:00:00.000Z", "1970-01-01T00:01:00.000Z",
         "1970-01-01T00:02:00.000Z", "1970-01-01T00:03:00.000Z",
         "1970-01-01T00:04:00.000Z", "1970-01-01T00:05:00.000Z",
         "1970-01-01T00:06:00.000Z", "1970-01-01T00:07:00.000Z",
         "1970-01-01T00:08:00.000Z", "1970-01-01T00:09:00.000Z">>

toISOString(t) == Iso[t + 1]

\* new Date(string): the instant of an ISO date string, Invalid Date otherwise
NewDate(text) ==
  IF \E i \in 1..Len(Iso) : Iso[i] = text
    THEN (CHOOSE i \in 1..Len(Iso) : Iso[i] = text) - 1
    ELSE NaN

\* the values a code may have: absent (undefined), null, empty, two codes
OtpValues == {"undefined", "null", "", "123456", "654321"}

\* !x for a code
Falsy(x) == x \in {"undefined", "null", ""}

\* the values of otpExpiresAt: absent, null, a number, a store Timestamp, a
\* Date (possibly an Invalid Date), a string
ExpiryValues ==
  {[type |-> "undefined"], [type |-> "null"]}
  \cup {[type |-> "number", t |-> t] : t \in {MaxClock}}
  \cup {[type |-> "Timestamp", t |-> t] : t \in Instants}
  \cup {[type |-> "Date", t |-> t] : t \in Instants \cup {NaN}}
  \cup {[type |-> "string", text |-> toISOString(t)] : t \in Instants}
  \cup {[type |-> "string", text |-> x] : x \in {"", "in five minutes"}}

\* variant: only the entered code is tested
IsMissing_EnteredOnly(enteredOTP, storedOTP) == Falsy(enteredOTP)

\* !enteredOTP || !storedOTP
IsMissing(enteredOTP, storedOTP) == Falsy(enteredOTP) \/ Falsy(storedOTP)

\* variant: the comparison of the codes left out
Differ_Never(enteredOTP, storedOTP) == FALSE

\* enteredOTP !== storedOTP
Differ(enteredOTP, storedOTP) == enteredOTP # storedOTP

\* variant: strings are not accepted as an expiry
expirationDate_NoStrings(expiresAt) ==
  IF expiresAt.type = "Timestamp" THEN [ok |-> TRUE, t |-> expiresAt.t]
  ELSE IF expiresAt.type = "Date" THEN [ok |-> TRUE, t |-> expiresAt.t]
  ELSE [ok |-> FALSE, t |-> NaN]

\* expiresAt?.toDate ? expiresAt.toDate() : expiresAt instanceof Date ?
\* expiresAt : typeof expiresAt === 'string' ? new Date(expiresAt) : (invalid)
expirationDate(expiresAt) ==
  IF expiresAt.type = "Timestamp" THEN [ok |-> TRUE, t |-> expiresAt.t]
  ELSE IF expiresAt.type = "Date" THEN [ok |-> TRUE, t |-> expiresAt.t]
  ELSE IF expiresAt.type = "string" THEN [ok |-> TRUE, t |-> NewDate(expiresAt.text)]
  ELSE [ok |-> FALSE, t |-> NaN]

\* variant: the expiry is never passed
After_Never(a, d) == FALSE

\* now > expirationDate: a comparison with an Invalid Date is false
After(a, d) == a # NaN /\ d # NaN /\ a > d

\* verifyOTP(enteredOTP, storedOTP, expiresAt), with new Date() = clock
verifyOTP(enteredOTP, storedOTP, expiresAt, clock) ==
  IF IsMissing(enteredOTP, storedOTP)
    THEN [valid |-> FALSE, message |-> "OTP is required"]
  ELSE IF Differ(enteredOTP, storedOTP)
    THEN [valid |-> FALSE, message |-> "Invalid OTP"]
  ELSE IF ~expirationDate(expiresAt).ok
    THEN [valid |-> FALSE, message |-> "Invalid OTP expiration"]
  ELSE IF After(clock, expirationDate(expiresAt).t)
    THEN [valid |-> FALSE, message |-> "OTP has expired"]
  ELSE [valid |-> TRUE, message |-> "OTP verified successfully"]

verifyOTP_call(enteredOTP, storedOTP, expiresAt) ==
  /\ otp' = [called |-> TRUE, enteredOTP |-> enteredOTP, storedOTP |-> storedOTP,
             expiresAt |-> expiresAt, at |-> now,
             valid |-> verifyOTP(enteredOTP, storedOTP, expiresAt, now).valid,
             message |-> verifyOTP(enteredOTP, storedOTP, expiresAt, now).message]
  /\ otp' # otp
  /\ UNCHANGED <<lookup, now, userLogin, attempt, logins, authSession,
                 loginConfirmation, generated>>
  /\ UNCHANGED <<store, admin, chat>>

\* time passes on the device
Tick ==
  /\ now < MaxClock
  /\ now' = now + 1
  /\ UNCHANGED <<lookup, otp, userLogin, attempt, logins, authSession,
                 loginConfirmation, generated>>
  /\ UNCHANGED <<store, admin, chat>>

InitOtp == InitStore([u \in Candidates |-> Null], 0, {})

NextOtp ==
  \/ Tick
  \/ \E enteredOTP \in OtpValues, storedOTP \in OtpValues, expiresAt \in ExpiryValues :
       verifyOTP_call(enteredOTP, storedOTP, expiresAt)

SpecOtp == InitOtp /\ [][NextOtp]_vars

\* ---- otpGenerator: generateOTP, getOTPExpiration ------------------------------
\* Math.floor(100000 + Math.random() * 900000)
OtpBase == 100000
OtpSpan == 900000

\* 5 * 60 * 1000 ms, in minutes
OtpLifetime == 5

\* a value r of Math.random() in [0, 1), written by its product with the span:
\* r * 900000 = units + tenths / 10.  The samples are the MaxRandom lowest and
\* highest units and the middle one, each with three fractions.
RandomValues ==
  [units : (0..MaxRandom) \cup ((OtpSpan - 1 - MaxRandom)..(OtpSpan - 1))
             \cup {OtpSpan \div 2},
   tenths : {0, 5, 9}]

\* Number.prototype.toString: the decimal digits of a non-negative integer
RECURSIVE Digits(_)
Digits(n) == IF n < 10 THEN <<n>> ELSE Append(Digits(n \div 10), n % 10)

\* Math.floor(base + r * 900000)
Floor(base, r) == base + r.units

\* variant: the offset 100000 left out
generateOTP_NoOffset(r) == Digits(Floor(0, r))

\* generateOTP() for the value r of Math.random()
generateOTP(r) == Digits(Floor(OtpBase, r))

\* variant: a lifetime of 4 minutes
getOTPExpiration_Short(clock) == [type |-> "Date", t |-> clock + OtpLifetime - 1]

\* getOTPExpiration(): new Date(now.getTime() + 5 * 60 * 1000)
getOTPExpiration(clock) == [type |-> "Date", t |-> clock + OtpLifetime]

generateOTP_call(r) ==
  /\ generated' = [fn |-> "generateOTP", code |-> generateOTP(r),
                   value |-> Floor(OtpBase, r), at |-> now,
                   expiration |-> [type |-> "undefined"]]
  /\ generated' # generated
  /\ UNCHANGED <<lookup, otp, now, userLogin, attempt, logins, authSession,
                 loginConfirmation>>
  /\ UNCHANGED <<store, admin, chat>>

getOTPExpiration_call ==
  /\ generated' = [fn |-> "getOTPExpiration", code |-> <<>>, value |-> 0, at |-> now,
                   expiration |-> getOTPExpiration(now)]
  /\ generated' # generated
  /\ UNCHANGED <<lookup, otp, now, userLogin, attempt, logins, authSession,
                 loginConfirmation>>
  /\ UNCHANGED <<store, admin, chat>>

InitGenerate == InitStore([u \in Candidates |-> Null], 0, {})

NextGenerate ==
  \/ Tick
  \/ \E r \in RandomValues : generateOTP_call(r)
  \/ getOTPExpiration_call

SpecGenerate == InitGenerate /\ [][NextGenerate]_vars

\* ---- AuthProvider: loginWithPhoneOTP, logout; UnifiedAuthScreen login ----------
\* the anonymous account of auth().signInAnonymously()
Anonymous == "anon"

AttemptsStarted == attempt["d1"].n + attempt["d2"].n

\* a document of users exists under the uid
UserExists(uid) == uid \in Users /\ users[uid].exists

\* the call of the device returns or throws
Closed(d, outcome) == [attempt[d] EXCEPT !.pc = "idle", !.outcome = outcome]

\* loginWithPhoneOTP(phoneNumber, otp): the users query by phone number
loginWithPhoneOTP_query(d, u, code) ==
  /\ attempt[d].pc = "idle"
  /\ AttemptsStarted < MaxAttempts
  /\ d = "d1" => (currentUser = Null /\ authSession = Null /\ loginConfirmation = Null)
  /\ attempt' = [attempt EXCEPT ![d] =
                   [kind |-> "loginWithPhoneOTP", pc |-> "verify", user |-> u,
                    otp |-> code,
                    snap |-> IF u # Null /\ users[u].exists THEN userLogin[u] ELSE NoCode,
                    found |-> u # Null /\ users[u].exists,
                    at |-> 0, outcome |-> "none", n |-> attempt[d].n + 1]]
  /\ UNCHANGED <<lookup, otp, now, userLogin, logins, authSession,
                 loginConfirmation, generated>>
  /\ UNCHANGED <<store, admin, chat>>

\* the query has answered: usersSnapshot.empty, verifyOTP on the document
\* read, the isBlocked check
loginWithPhoneOTP_verify(d) ==
  /\ attempt[d].kind = "loginWithPhoneOTP" /\ attempt[d].pc = "verify"
  /\ IF ~attempt[d].found
       THEN /\ attempt' = [attempt EXCEPT ![d] =
                             Closed(d, "No user found with this phone number")]
            /\ UNCHANGED otp
       ELSE LET a == attempt[d]
                r == verifyOTP(a.otp, a.snap.currentOTP, a.snap.otpExpiresAt, now)
            IN /\ otp' = [called |-> TRUE, enteredOTP |-> a.otp,
                          storedOTP |-> a.snap.currentOTP,
                          expiresAt |-> a.snap.otpExpiresAt, at |-> now,
                          valid |-> r.valid, message |-> r.message]
               /\ attempt' = [attempt EXCEPT ![d] =
                    IF ~r.valid THEN Closed(d, r.message)
                    ELSE IF a.snap.isBlocked
                      THEN Closed(d, "Your account has been blocked by an administrator")
                    ELSE [a EXCEPT !.pc = "clear"]]
  /\ UNCHANGED <<lookup, now, userLogin, logins, authSession, loginConfirmation,
                 generated>>
  /\ UNCHANGED <<store, admin, chat>>

\* users.doc(id).update({currentOTP: null, otpExpiresAt: null, lastActive})
loginWithPhoneOTP_clear(d) ==
  /\ attempt[d].kind = "loginWithPhoneOTP" /\ attempt[d].pc = "clear"
  /\ IF users[attempt[d].user].exists
       THEN /\ userLogin' = [userLogin EXCEPT
                               ![attempt[d].user].currentOTP = "null",
                               ![attempt[d].user].otpExpiresAt = [type |-> "null"]]
            /\ attempt' = [attempt EXCEPT ![d].pc = "signIn"]
       ELSE /\ attempt' = [attempt EXCEPT ![d] = Closed(d, "not-found")]
            /\ UNCHANGED userLogin
  /\ UNCHANGED <<lookup, otp, now, logins, authSession, loginConfirmation, generated>>
  /\ UNCHANGED <<store, admin, chat>>

\* auth().signInAnonymously(), the firebaseAuthUid update, and the return
loginWithPhoneOTP_signIn(d) ==
  /\ attempt[d].kind = "loginWithPhoneOTP" /\ attempt[d].pc = "signIn"
  /\ authSession' = IF d = "d1" THEN Anonymous ELSE authSession
  /\ IF users[attempt[d].user].exists
       THEN /\ attempt' = [attempt EXCEPT ![d] = Closed(d, "success")]
            /\ logins' = [logins EXCEPT ![attempt[d].user] = @ + 1]
       ELSE /\ attempt' = [attempt EXCEPT ![d] = Closed(d, "not-found")]
            /\ UNCHANGED logins
  /\ UNCHANGED <<lookup, otp, now, userLogin, loginConfirmation, generated>>
  /\ UNCHANGED <<store, admin, chat>>

\* the listener for the anonymous account: no user document under its uid
\* and no phone number, so only setCurrentUser runs
onAuthStateChanged_anonymous ==
  /\ authSession = Anonymous /\ currentUser # Anonymous
  /\ currentUser' = Anonymous
  /\ UNCHANGED <<messages, userData, authUserProjects, screen, group, newMessage,
                 showAttachmentMenu, replyingTo, alert>>
  /\ UNCHANGED <<store, admin, calls>>

\* the listener for the account of a phone-verified user
onAuthStateChanged_user ==
  /\ authSession \in Users
  /\ onAuthStateChanged(authSession)

\* UnifiedAuthScreen.handleLoginSendOTP: the account is looked up by phone
\* number, then signInWithPhoneNumber returns the confirmation
handleLoginSendOTP(u) ==
  /\ currentUser = Null /\ authSession = Null
  /\ loginConfirmation = Null /\ attempt["d1"].pc = "idle"
  /\ users[u].exists
  /\ loginConfirmation' = u
  /\ UNCHANGED <<lookup, otp, now, userLogin, attempt, logins, authSession, generated>>
  /\ UNCHANGED <<store, admin, chat>>

\* UnifiedAuthScreen.handleLoginVerifyOTP: loginConfirmation.confirm(loginOtp)
\* with the code of the SMS signs the phone account in
handleLoginVerifyOTP ==
  /\ currentUser = Null /\ authSession = Null
  /\ loginConfirmation # Null
  /\ authSession' = loginConfirmation
  /\ UNCHANGED <<lookup, otp, now, userLogin, attempt, logins, loginConfirmation,
                 generated>>
  /\ UNCHANGED <<store, admin, chat>>

\* logout(), pressed on a dashboard: with a currentUser the online-status
\* update is awaited first
logout_start ==
  /\ currentUser # Null /\ userData.exists
  /\ attempt["d1"].pc = "idle"
  /\ AttemptsStarted < MaxAttempts
  /\ attempt' = [attempt EXCEPT !["d1"] =
                   [IdleAttempt EXCEPT !.kind = "logout", !.pc = "update",
                                       !.user = currentUser,
                                       !.n = attempt["d1"].n + 1]]
  /\ UNCHANGED <<lookup, otp, now, userLogin, logins, authSession,
                 loginConfirmation, generated>>
  /\ UNCHANGED <<store, admin, chat>>

\* users.doc(currentUser.uid).update({isOnline: false, lastSeen}); when it
\* rejects the catch block rethrows
logout_update(rejected) ==
  /\ attempt["d1"].kind = "logout" /\ attempt["d1"].pc = "update"
  /\ attempt' = [attempt EXCEPT !["d1"] =
                   IF rejected \/ ~UserExists(attempt["d1"].user)
                     THEN Closed("d1", "error")
                     ELSE [attempt["d1"] EXCEPT !.pc = "signOut"]]
  /\ UNCHANGED <<lookup, otp, now, userLogin, logins, authSession,
                 loginConfirmation, generated>>
  /\ UNCHANGED <<store, admin, chat>>

\* auth().signOut(); setCurrentUser(null); setUserData(null); setUserProjects([])
logout_signOut ==
  /\ attempt["d1"].kind = "logout" /\ attempt["d1"].pc = "signOut"
  /\ authSession' = Null
  /\ loginConfirmation' = Null
  /\ currentUser' = Null /\ userData' = NoUserData /\ authUserProjects' = <<>>
  /\ attempt' = [attempt EXCEPT !["d1"] = Closed("d1", "success")]
  /\ UNCHANGED <<messages, screen, group, newMessage, showAttachmentMenu,
                 replyingTo, alert>>
  /\ UNCHANGED <<lookup, otp, now, userLogin, logins, generated>>
  /\ UNCHANGED <<store, admin>>

\* time passes while codes are entered
TickLogin ==
  /\ now < MaxLoginClock
  /\ now' = now + 1
  /\ UNCHANGED <<lookup, otp, userLogin, attempt, logins, authSession,
                 loginConfirmation, generated>>
  /\ UNCHANGED <<store, admin, chat>>

\* the code "123456" has been issued to u1 at the start, expiring at
\* getOTPExpiration; the store returns the expiry as Timestamp, or as the ISO
\* string another client wrote; u1 may be blocked
IssuedExpiry(rep, clock) ==
  IF rep = "Timestamp" THEN [type |-> "Timestamp", t |-> getOTPExpiration(clock).t]
  ELSE [type |-> "string", text |-> toISOString(getOTPExpiration(clock).t)]

InitLogin ==
  \E rep \in {"Timestamp", "string"}, blocked \in BOOLEAN, issuedAt \in {0} :
    /\ users = [u \in Users |->
                  [exists |-> TRUE, isApproved |-> TRUE, isActive |-> TRUE,
                   globalRole |-> IF u = "sa" THEN "superadmin" ELSE "none",
                   role |-> "employee"]]
    /\ userProjects = <<NewMembership("u1", "p1", "user")>>
    /\ qrInvitations = [q \in Qrs |-> InitInvitation(q, [u \in Candidates |-> Null])]
    /\ groups = [g \in Groups |->
                   [exists |-> g = "general_p1",
                    projectId |-> IF g = "general_p2" THEN "p2" ELSE "p1",
                    isChannel |-> g # "team_p1",
                    isGeneralChannel |-> g # "team_p1",
                    members |-> IF g = "general_p1" THEN {"u1"} ELSE {}]]
    /\ projects = [p \in Projects |-> [exists |-> p = "p1", isActive |-> TRUE]]
    /\ authCredentials = Users
    /\ pendingUsers = [s \in Sessions |-> {}]
    /\ projectUsers = [s \in Sessions |-> {}]
    /\ project = [s \in Sessions |-> Null]
    /\ pc = [s \in Sessions |-> "idle"]
    /\ op = [s \in Sessions |-> IdleOp]
    /\ result = [s \in Sessions |-> NoResult]
    /\ opsStarted = 0
    /\ opBudget = 0
    /\ failures = 0
    /\ messages = <<>>
    /\ currentUser = Null
    /\ userData = NoUserData
    /\ authUserProjects = <<>>
    /\ screen = "none"
    /\ group = Null
    /\ newMessage = ""
    /\ showAttachmentMenu = FALSE
    /\ replyingTo = 0
    /\ alert = "none"
    /\ lookup = NoLookup /\ otp = NoOtp
    /\ now = issuedAt
    /\ userLogin = [u \in Users |->
                      IF u = "u1"
                        THEN [currentOTP |-> "123456",
                              otpExpiresAt |-> IssuedExpiry(rep, issuedAt),
                              isBlocked |-> blocked]
                        ELSE NoCode]
    /\ attempt = [d \in Devices |-> IdleAttempt]
    /\ logins = [u \in Users |-> 0]
    /\ authSession = Null
    /\ loginConfirmation = Null
    /\ generated = [fn |-> "getOTPExpiration", code |-> <<>>, value |-> 0,
                    at |-> issuedAt, expiration |-> getOTPExpiration(issuedAt)]

NextLogin ==
  \/ TickLogin
  \/ \E d \in Devices, u \in {"u1", Null}, code \in {"123456", "654321"} :
       loginWithPhoneOTP_query(d, u, code)
  \/ \E d \in Devices : loginWithPhoneOTP_verify(d)
  \/ \E d \in Devices : loginWithPhoneOTP_clear(d)
  \/ \E d \in Devices : loginWithPhoneOTP_signIn(d)
  \/ onAuthStateChanged_anonymous
  \/ onAuthStateChanged_user
  \/ \E u \in Candidates : handleLoginSendOTP(u)
  \/ handleLoginVerifyOTP
  \/ logout_start
  \/ \E rejected \in BOOLEAN : logout_update(rejected)
  \/ logout_signOut

SpecLogin == InitLogin /\ [][NextLogin]_vars

\* ---- claims ---------------------------------------------------------------

ActiveCount(u, p) == Cardinality(ActiveMembershipIds(userProjects, u, p))

InList(u, q) == u \in SeqToSet(qrInvitations[q].pendingSignups)

Finished(s, kinds) == result[s].kind \in kinds /\ result[s].outcome # "none"

\* C1: in every reachable state there is at most one active membership
\* record per (userId, projectId) pair.
C1_AtMostOneActiveMembership ==
  \A u \in Users, p \in Projects : ActiveCount(u, p) <= 1

\* C2: approveUser invoked twice on the same pending entry with a non-null
\* projectId leaves exactly one active membership for the pair; the second
\* invocation adds nothing.
C2_ApproveTwiceOneMembership ==
  \A s1, s2 \in Sessions :
    ( /\ s1 # s2
      /\ result[s1].kind = "approve" /\ result[s1].outcome = "success"
      /\ result[s2].kind = "approve" /\ result[s2].outcome = "success"
      /\ result[s1].user = result[s2].user
      /\ result[s1].qrId = result[s2].qrId
      /\ result[s1].projectId # Null )
    => /\ ActiveCount(result[s1].user, result[s1].projectId) = 1
       /\ result[s1].added + result[s2].added = 1

\* the step with which approveUser / rejectUser of session s reports success
ApproveCompletes(s) ==
  pc[s] = "approve_write" /\ pc'[s] = "idle" /\ result'[s].outcome = "success"

RejectCompletes(s) ==
  pc[s] = "reject_write" /\ pc'[s] = "idle" /\ result'[s].outcome = "success"

\* C3: when approveUser has run to completion the user record has
\* isApproved = true, the entry is out of the invitation's pending list, and
\* the handler created an active membership with role 'user' iff the entry's
\* projectId is non-null.
C3_ApprovePostcondition ==
  [][\A s \in Sessions :
       ApproveCompletes(s) =>
         /\ users'[op[s].user].exists /\ users'[op[s].user].isApproved
         /\ op[s].user \notin SeqToSet(qrInvitations'[op[s].qrId].pendingSignups)
         /\ (op[s].added = 1) <=> (op[s].projectId # Null)
         /\ op[s].projectId # Null =>
              \E i \in ActiveMembershipIds(userProjects', op[s].user, op[s].projectId) :
                userProjects'[i].role = "user"]_vars

\* C4: for every invitation, in every state reached after an approve or
\* reject has finished (with success or with an error), isPending is true
\* iff the pending signup list is non-empty.
C4_IsPendingIffNonEmpty ==
  (\E s \in Sessions : Finished(s, {"approve", "reject"}))
    => \A q \in Qrs : qrInvitations[q].isPending <=> qrInvitations[q].pendingSignups # <<>>

C4_Witness ==
  \E s \in Sessions :
    /\ Finished(s, {"approve", "reject"})
    /\ result[s].outcome = "success"
    /\ qrInvitations[result[s].qrId].pendingSignups = <<>>
    /\ ~qrInvitations[result[s].qrId].isPending
    /\ \E q \in Qrs : qrInvitations[q].isPending

\* a signup is approved once its user record is approved and its entry has
\* left every pending list; it is rejected once its user record is gone
Approved(u) ==
  /\ users[u].exists /\ users[u].isApproved
  /\ \A q \in Qrs : ~InList(u, q)

Rejected(u) == ~users[u].exists

\* C5: approved and rejected are terminal: no later approve or reject step
\* deletes or changes an approved user, and nothing re-creates or approves a
\* rejected one.
C5_TerminalStates ==
  [][\A u \in Candidates :
       /\ Approved(u) => users'[u] = users[u]
       /\ Rejected(u) => users'[u] = users[u]]_vars

\* C6: an approve attempt started on a user that reject has deleted stops at
\* its first write: it never reports success, never re-creates the user record
\* and never creates a membership.
C6_ApproveAfterRejectFails ==
  \A s \in Sessions :
    /\ (op[s].kind = "approve" /\ op[s].userMissing)
         => /\ pc[s] = "approve_update"
            /\ op[s].added = 0
            /\ ~users[op[s].user].exists
    /\ (result[s].kind = "approve" /\ result[s].userMissing)
         => /\ result[s].outcome = "error"
            /\ result[s].added = 0
            /\ ~users[result[s].user].exists

C6_Witness ==
  \E s, t \in Sessions :
    /\ result[s].kind = "approve" /\ result[s].userMissing
    /\ result[s].outcome = "error"
    /\ result[t].kind = "reject" /\ result[t].outcome = "success"
    /\ result[t].user = result[s].user
    /\ failures = 0

\* a step taken by the rejectUser handler of session s
RejectStep(s) == op[s].kind = "reject" /\ <<pc[s], op[s]>> # <<pc'[s], op'[s]>>

AsIfAlone(r) ==
  /\ ~InList(r.user, r.qrId)
  /\ r.kind = "approve" => users[r.user].exists /\ users[r.user].isApproved
  /\ r.kind = "approve" =>
       ActiveCount(r.user, "p1") = (IF r.projectId = Null THEN 0 ELSE 1)
  /\ r.kind = "reject" => ~users[r.user].exists

\* C8: approve / reject for two different users do not interfere, also when
\* both are entries of the same invitation: once both have completed, both
\* entries are out of the pending list and each user's record and membership
\* are as after running the two one after the other.
C8_NoCrossInterference ==
  \A s1, s2 \in Sessions :
    ( /\ s1 # s2
      /\ Finished(s1, {"approve", "reject"}) /\ result[s1].outcome = "success"
      /\ Finished(s2, {"approve", "reject"}) /\ result[s2].outcome = "success"
      /\ result[s1].user # result[s2].user
      /\ pc[s1] = "idle" /\ pc[s2] = "idle"
      /\ opsStarted = 2 )
    => AsIfAlone(result[s1]) /\ AsIfAlone(result[s2])

\* the signed-in user is listed as project admin of the project by the
\* project list read at sign-in
ListedProjectAdmin(p) ==
  \E i \in 1..Len(authUserProjects) :
    authUserProjects[i].id = p /\ authUserProjects[i].userRole = "project_admin"

\* C9: a user who is SuperAdmin or holds an active project_admin membership in
\* the channel's project (per the project list read by getUserProjects at
\* sign-in) may post in that channel: canSendMessages is true in the chat room.
C9_AdminsMayPostInChannel ==
  ( /\ screen = "ChatRoomScreen" /\ group # Null
    /\ groups[group].isChannel
    /\ isSuperAdmin(userData) \/ ListedProjectAdmin(groups[group].projectId) )
  => canSendMessages(group)

\* the sender of a message is SuperAdmin or project admin of the project
SenderIsAdmin(m) ==
  \/ users[m.senderId].globalRole = "superadmin"
  \/ \E i \in ActiveMembershipIds(userProjects, m.senderId, groups[m.groupId].projectId) :
       userProjects[i].role = "project_admin"

\* C10: no message document with a channel's groupId is ever created by a
\* user who is neither SuperAdmin nor project_admin of the channel's project,
\* whatever chat-room action (text, media, document, reply) created it.
C10_ChannelWritesByAdminsOnly ==
  \A m \in 1..Len(messages) :
    groups[messages[m].groupId].isChannel => SenderIsAdmin(messages[m])

\* C11: in a group that is not a channel posting is permitted whatever the
\* user's role: both chat rooms show the input area, and sendMessage with a
\* non-blank text is never refused with 'Only admins can post in channels'.
C11_GroupsAnyoneMayPost ==
  ( screen # "none" /\ group # Null /\ ~groups[group].isChannel )
  => /\ alert # "Only admins can post in channels"
     /\ screen = "ChatRoomScreen" => canSendMessages(group)
     /\ screen = "ChatRoomScreenEarlier" => canSendEarlier(group)

\* a user without any membership, not SuperAdmin and with the plain legacy
\* role has sent a text message to a group that is not a channel
C11_Witness ==
  \E m \in 1..Len(messages) :
    /\ ~groups[messages[m].groupId].isChannel
    /\ messages[m].type = "text"
    /\ messages[m].via = "ChatRoomScreen"
    /\ users[messages[m].senderId].globalRole # "superadmin"
    /\ users[messages[m].senderId].role = "employee"
    /\ \A p \in Projects : ActiveMembershipIds(userProjects, messages[m].senderId, p) = {}

\* the store holds an active project_admin membership of u in p, or u is
\* SuperAdmin in the store
AdminInStore(u, p) ==
  /\ u # Null /\ p # Null
  /\ \/ users[u].exists /\ users[u].globalRole = "superadmin"
     \/ \E i \in ActiveMembershipIds(userProjects, u, p) :
          userProjects[i].role = "project_admin"

\* C12: the project-admin check answers true iff the user is SuperAdmin or
\* holds an active project_admin membership for that project in the store, for
\* roleHelper.isProjectAdmin applied to the stored record as for the auth
\* context's isProjectAdmin (so the two always agree).
C12_ProjectAdminChecksAgree ==
  lookup.fn \in {"isProjectAdmin", "context.isProjectAdmin"}
  => (lookup.answer = "true" <=> AdminInStore(lookup.userId, lookup.projectId))

\* the caller of the last lookup is the SuperAdmin and asked about a project
SuperAdminAsks(fn) ==
  /\ lookup.fn = fn
  /\ lookup.userId # Null /\ lookup.projectId # Null
  /\ users[lookup.userId].exists /\ users[lookup.userId].globalRole = "superadmin"
  /\ ~lookup.failed

\* C13: for a SuperAdmin the role lookup answers admin-equivalent for every
\* project, also one without membership records: isProjectAdmin is true,
\* hasAccessToProject is true, getUserRoleInProject does not answer null.
C13_SuperAdminRoleLookup ==
  /\ SuperAdminAsks("isProjectAdmin") => lookup.answer = "true"
  /\ SuperAdminAsks("hasAccessToProject") => lookup.answer = "true"
  /\ SuperAdminAsks("getUserRoleInProject") => lookup.answer # "null"

\* the membership lookup of (u, p) yields nothing usable: the call failed, no
\* active record exists, or the record found has no valid role
NothingUsable(u, p, failed) ==
  \/ failed
  \/ u = Null \/ p = Null
  \/ \A i \in ActiveMembershipIds(userProjects, u, p) :
       userProjects[i].role \notin {"user", "project_admin"}

\* C14: the access resolver fails closed: when the lookup finds no active
\* record, malformed data, or the store call fails, getUserRoleInProject
\* answers none (null, or undefined for a missing role), hasAccessToProject
\* false, getUserProjects the empty list, and no error reaches the caller.
C14_FailClosed ==
  /\ ~lookup.raised
  /\ ( lookup.fn = "getUserRoleInProject"
       /\ NothingUsable(lookup.userId, lookup.projectId, lookup.failed) )
     => lookup.answer \in {"null", "undefined"}
  /\ ( lookup.fn = "hasAccessToProject" /\ ~isSuperAdmin(lookup.data)
       /\ NothingUsable(lookup.userId, lookup.projectId, lookup.failed) )
     => lookup.answer = "false"
  /\ ( lookup.fn = "getUserProjects"
       /\ \A p \in Projects : NothingUsable(lookup.userId, p, lookup.failed) )
     => lookup.list = <<>>

\* C15: isSuperAdmin(userData) is true iff userData.globalRole is
\* 'superadmin'; for an absent record and an absent, null or other globalRole
\* it is false.
C15_IsSuperAdmin ==
  lookup.fn = "isSuperAdmin"
  => ( lookup.answer = "true"
       <=> /\ lookup.data # NoUserData
           /\ "globalRole" \in DOMAIN lookup.data
           /\ lookup.data.globalRole = "superadmin" )

\* isSuperAdmin has answered true for a superadmin record
C15_Witness ==
  /\ lookup.fn = "isSuperAdmin" /\ lookup.answer = "true"
  /\ lookup.data = [exists |-> TRUE, globalRole |-> "superadmin", role |-> "employee"]

\* expiresAt denotes an instant in one of the three accepted representations
\* (store timestamp, date value, ISO date string)
IsInstant(e) ==
  \/ e.type = "Timestamp"
  \/ e.type = "Date" /\ e.t # NaN
  \/ e.type = "string" /\ \E t \in Instants : e.text = toISOString(t)

InstantOf(e) ==
  IF e.type = "string" THEN CHOOSE t \in Instants : e.text = toISOString(t) ELSE e.t

\* a code that is neither empty nor absent
Present(code) == code \notin {"undefined", "null", ""}

\* C16 as stated: for all entered and stored codes with entered == stored and
\* every expiry instant with now < expiresAt, verifyOTP returns valid.
C16_VerifyValid_AsStated ==
  ( /\ otp.called /\ otp.enteredOTP = otp.storedOTP
    /\ IsInstant(otp.expiresAt) /\ otp.at < InstantOf(otp.expiresAt) )
  => otp.valid

\* C16 (amended): for all entered and stored codes that are equal and not
\* empty or absent, and every expiry instant with now < expiresAt in any of
\* the three representations, verifyOTP returns valid.
C16_VerifyValid ==
  ( /\ otp.called /\ otp.enteredOTP = otp.storedOTP /\ Present(otp.enteredOTP)
    /\ IsInstant(otp.expiresAt) /\ otp.at < InstantOf(otp.expiresAt) )
  => otp.valid /\ otp.message = "OTP verified successfully"

\* a matching code was verified valid against an expiry given as ISO string
C16_Witness ==
  /\ otp.called /\ otp.valid /\ otp.enteredOTP = "123456"
  /\ otp.expiresAt.type = "string" /\ IsInstant(otp.expiresAt)
  /\ otp.at < InstantOf(otp.expiresAt)

\* C17 as stated: for all entered and stored codes with entered != stored,
\* verifyOTP returns invalid with 'Invalid OTP', whatever the expiry value.
C17_VerifyMismatch_AsStated ==
  ( otp.called /\ otp.enteredOTP # otp.storedOTP )
  => ~otp.valid /\ otp.message = "Invalid OTP"

\* C17 (amended): for all entered and stored codes that differ and are both
\* neither empty nor absent, verifyOTP returns invalid with 'Invalid OTP',
\* whatever the expiry value (future, past, absent or malformed).
C17_VerifyMismatch ==
  ( /\ otp.called /\ otp.enteredOTP # otp.storedOTP
    /\ Present(otp.enteredOTP) /\ Present(otp.storedOTP) )
  => ~otp.valid /\ otp.message = "Invalid OTP"

\* a wrong code was refused although the expiry lies in the future
C17_Witness ==
  /\ otp.called /\ otp.enteredOTP = "654321" /\ otp.storedOTP = "123456"
  /\ otp.expiresAt.type = "Timestamp" /\ otp.at < otp.expiresAt.t
  /\ otp.message = "Invalid OTP"

\* C18: when the entered code equals the non-empty stored code and expiresAt
\* does not denote an instant in one of the three accepted representations
\* (absent, null, a number, a string that does not parse as a date),
\* verifyOTP returns invalid with 'Invalid OTP expiration' and never valid.
C18_InvalidExpiration ==
  ( /\ otp.called /\ otp.enteredOTP = otp.storedOTP /\ Present(otp.storedOTP)
    /\ ~IsInstant(otp.expiresAt) )
  => ~otp.valid /\ otp.message = "Invalid OTP expiration"

\* C19 as stated: for every expiry instant with now > expiresAt and
\* entered == stored, verifyOTP returns invalid with 'OTP has expired'.
C19_VerifyExpired_AsStated ==
  ( /\ otp.called /\ otp.enteredOTP = otp.storedOTP
    /\ IsInstant(otp.expiresAt) /\ otp.at > InstantOf(otp.expiresAt) )
  => ~otp.valid /\ otp.message = "OTP has expired"

\* C19 (amended): for every expiry instant with now > expiresAt and entered
\* and stored codes that are equal and not empty or absent, verifyOTP returns
\* invalid with 'OTP has expired'.
C19_VerifyExpired ==
  ( /\ otp.called /\ otp.enteredOTP = otp.storedOTP /\ Present(otp.enteredOTP)
    /\ IsInstant(otp.expiresAt) /\ otp.at > InstantOf(otp.expiresAt) )
  => ~otp.valid /\ otp.message = "OTP has expired"

\* the right code was refused as expired after its expiry
C19_Witness ==
  /\ otp.called /\ otp.enteredOTP = "123456" /\ otp.storedOTP = "123456"
  /\ otp.expiresAt.type = "Date" /\ otp.expiresAt.t # NaN
  /\ otp.at > otp.expiresAt.t
  /\ otp.message = "OTP has expired"

\* C20: whenever the entered code is empty or absent, verifyOTP returns
\* invalid with 'OTP is required' whatever the stored code and expiresAt; the
\* same whenever the stored code is empty or absent.
C20_VerifyMissing ==
  ( otp.called /\ (~Present(otp.enteredOTP) \/ ~Present(otp.storedOTP)) )
  => ~otp.valid /\ otp.message = "OTP is required"

\* a code was entered while none is stored, with an expiry in the future
C20_Witness ==
  /\ otp.called /\ otp.enteredOTP = "123456" /\ otp.storedOTP = "null"
  /\ otp.expiresAt.type = "Timestamp" /\ otp.at < otp.expiresAt.t
  /\ otp.message = "OTP is required"

\* the number written by a sequence of decimal digits
RECURSIVE ValueOf(_)
ValueOf(ds) ==
  IF ds = <<>> THEN 0 ELSE 10 * ValueOf(SubSeq(ds, 1, Len(ds) - 1)) + ds[Len(ds)]

\* C22: for every value of the random source in [0, 1), generateOTP returns a
\* string of exactly 6 decimal digits whose value lies in 100000..999999: no
\* leading zero, never fewer or more than 6 digits.
C22_GenerateSixDigits ==
  generated.fn = "generateOTP"
  => /\ Len(generated.code) = 6
     /\ \A i \in 1..Len(generated.code) : generated.code[i] \in 0..9
     /\ generated.code[1] # 0
     /\ ValueOf(generated.code) \in 100000..999999

\* generateOTP has returned the largest code, for a random value just below 1
C22_Witness ==
  /\ generated.fn = "generateOTP"
  /\ generated.code = <<9, 9, 9, 9, 9, 9>>

\* the last verifyOTP call compared the issued code with itself
IssuedCodeEntered ==
  /\ otp.called
  /\ generated.fn = "getOTPExpiration"
  /\ Present(otp.storedOTP) /\ otp.enteredOTP = otp.storedOTP

\* C21: a code issued at instant T with the expiry of getOTPExpiration
\* (exactly T + 5 minutes) verifies as valid when the same code is entered at
\* any instant up to and including T + 5 minutes, and as expired later.
C21_IssuedCodeLifetime ==
  IssuedCodeEntered
  => /\ generated.expiration.t = generated.at + 5
     /\ otp.at <= generated.at + 5 => otp.valid
     /\ otp.at > generated.at + 5 => (~otp.valid /\ otp.message = "OTP has expired")

\* the issued code was verified valid exactly 5 minutes after it was issued
C21_Witness ==
  /\ IssuedCodeEntered
  /\ otp.at = generated.at + 5
  /\ otp.valid

\* C23: a successful loginWithPhoneOTP clears currentOTP and otpExpiresAt, so
\* each issued code yields at most one successful login over any sequence or
\* interleaving of login attempts presenting it (one code is issued per
\* user over a run).
C23_OtpSingleUse ==
  \A u \in Users : logins[u] <= 1

\* C27: a user whose record has isBlocked = true never reaches the logged-in
\* state (currentUser and userData set), by the stored-OTP login or by the
\* phone-verification login followed by the auth-state listener.
C27_BlockedNeverLoggedIn ==
  ~( /\ currentUser \in Users /\ userData.exists
     /\ userLogin[currentUser].isBlocked )

\* the logout call of the device returns or throws in this step
LogoutReturns ==
  /\ attempt["d1"].kind = "logout" /\ attempt["d1"].pc # "idle"
  /\ attempt'["d1"].pc = "idle"

\* C28: logout always ends with the authentication session signed out and
\* the local state cleared (currentUser null, userData null, userProjects
\* empty), also when the online-status write fails or the record is missing.
C28_LogoutAlwaysSignsOut ==
  [][ LogoutReturns
      => /\ authSession' = Null
         /\ currentUser' = Null /\ ~userData'.exists /\ authUserProjects' = <<>> ]_vars


\* ---- removal, re-adding and the General channel ---------------------------
RemoveKinds == {"removeUserPM", "removeUserUM"}

AddKinds == {"addUsers", "addUsersToProject"}

\* the handler of session s ends in this step
Ends(s) == pc[s] # "idle" /\ pc'[s] = "idle"

\* a remove-user handler of session s ends with its success Alert
RemoveEnds(s) ==
  Ends(s) /\ result'[s].kind \in RemoveKinds /\ result'[s].outcome = "success"

\* an add-users handler of session s ends with its 'Added n user(s)' Alert
AddEnds(s) ==
  Ends(s) /\ result'[s].kind \in AddKinds /\ result'[s].outcome = "success"

\* C24: removing a user from a project deactivates the membership record and
\* never deletes it: when a remove-user handler of either management screen
\* has ended successfully, a membership record of that (userId, projectId)
\* still exists.
C24_RemoveKeepsRecord ==
  [][\A s \in Sessions :
       RemoveEnds(s) =>
         MembershipIds(userProjects', result'[s].user, result'[s].projectId) # {}]_vars

\* C25: when a remove-user handler has ended successfully, the user's id is
\* in the members list of no group whose projectId is that project.
C25_RemovedLeavesGroups ==
  [][\A s \in Sessions :
       RemoveEnds(s) =>
         \A g \in Groups :
           groups'[g].exists /\ groups'[g].projectId = result'[s].projectId
             => result'[s].user \notin groups'[g].members]_vars

\* C26: when an add-users handler has ended for a selection, every user of
\* the selection it added to the project is in the members list of the
\* project's General channel, and so is every user who was in it when the
\* handler read the channel, for selections of one user and of several.
C26_GeneralChannelKeepsMembers ==
  [][\A s \in Sessions :
       AddEnds(s) /\ op[s].channel # Null =>
         /\ op[s].addedUsers \subseteq groups'[op[s].channel].members
         /\ op[s].members \subseteq groups'[op[s].channel].members]_vars

\* C29: whenever no handler is running, every invitation with isPending =
\* true has a pending entry whose user record exists (an entry the approvals
\* screen lists), also after an approve or reject that failed between its
\* writes.
C29_PendingHasListedEntry ==
  (\A s \in Sessions : pc[s] = "idle") =>
    \A q \in Qrs :
      qrInvitations[q].exists /\ qrInvitations[q].isPending =>
        \E e \in PendingList(qrInvitations, users) : e.qrId = q

\* C30: when an add-users handler ends whose selection holds the user that
\* the same screen's previous handler removed from the same project, the user
\* has an active membership for that project and was counted as added.
C30_RemovedCanBeReadded ==
  [][\A s \in Sessions :
       /\ AddEnds(s)
       /\ result[s].kind \in RemoveKinds
       /\ result[s].outcome = "success"
       /\ result[s].projectId = op[s].projectId
       /\ result[s].user \in SeqToSet(op[s].selected)
       => /\ ActiveMembershipIds(userProjects', result[s].user, op[s].projectId) # {}
          /\ result[s].user \in op[s].addedUsers]_vars

====
